---- MODULE Spec2Model ----
(***************************************************************************)
(* Gap-filling content agent (src/main.py, src/db_manager.py,              *)
(* src/config.py): the scan / dispatch / drain / cool loop of              *)
(* ContentAgent, its thread pool of _process_exam workers, the duplicate   *)
(* filter, the hydrator and the shared counters they update; and the       *)
(* provider wrapper QuestionGenerator.generate (src/generator.py) with the *)
(* authors' test of it (src/test_generator.py).                            *)
(*                                                                         *)
(* Granularity: every worker step performs its thread-local computation    *)
(* and at most one load or one store of a shared object (_stats,           *)
(* _question_counter, the collection).  `x += n` on a shared attribute is  *)
(* a load step followed by a store step, as the interpreter executes it.   *)
(***************************************************************************)
EXTENDS Naturals, Integers, Sequences, FiniteSets, Bags, TLC

----------------------------------------------------------------------------
(* Bounds of the model *)

\* number of groups (exam slugs) present in the store
NumExams == 3
\* config.MAX_PARALLEL_EXAMS is 3 in src/config.py:30; the pool bound is scaled
MAX_PARALLEL_EXAMS == 2
\* config.GAP_THRESHOLD is 10000 in src/config.py:18; scaled to the store's size
GAP_THRESHOLD == 2
\* number of candidates the provider returns in one run, over all its batches
\* (config.BATCH_SIZE is 60 per batch)
MaxCandidates == 2
\* int(time.time() * 1000) reads a value of 0..MaxClock
MaxClock == 1
\* number of exceptions the store and the provider raise in one run
MaxFaults == 1
\* a group of a store drawn for the gap scanner holds 0..MaxCount documents
MaxCount == 3
\* the model's message holds 0..MaxQuestions questions when generate is
\* called on its own
MaxQuestions == 3
\* number of candidates the provider returns in a run that is followed to the
\* end of every task of a full pool
PoolCandidates == 1

(* Program constants, src/config.py *)
FUZZY_MATCH_THRESHOLD == 45
BATCH_DELAY_SECONDS == 10
ROUND_DELAY_SECONDS == 2
NO_GAPS_DELAY_SECONDS == 300
RETRY_DELAY_SECONDS == 30
QUOTA_BACKOFF_MIN == 120
QUOTA_BACKOFF_MAX == 300
DEFAULT_STATUS == "pending_review"
DEFAULT_VERSION == 0

----------------------------------------------------------------------------
(* Texts.  A text is a sequence of characters; characters are numbers so   *)
(* that tokens can be sorted: 0 is the blank, 1.. are letters.             *)

SPACE == 0

\* str.strip(): drop leading and trailing whitespace
RECURSIVE LStrip(_)
LStrip(s) == IF s # <<>> /\ Head(s) = SPACE THEN LStrip(Tail(s)) ELSE s

RECURSIVE RStrip(_)
RStrip(s) ==
  IF s # <<>> /\ s[Len(s)] = SPACE THEN RStrip(SubSeq(s, 1, Len(s) - 1)) ELSE s

Strip(s) == RStrip(LStrip(s))

\* str.split(): the set of maximal blank-free runs of s
Tokens(s) ==
  { SubSeq(s, i, j) : <<i, j>> \in
      { p \in (1..Len(s)) \X (1..Len(s)) :
          /\ p[1] <= p[2]
          /\ \A k \in p[1]..p[2] : s[k] # SPACE
          /\ (p[1] = 1 \/ s[p[1] - 1] = SPACE)
          /\ (p[2] = Len(s) \/ s[p[2] + 1] = SPACE) } }

RECURSIVE LexLess(_, _)
LexLess(a, b) ==
  IF a = <<>> THEN b # <<>>
  ELSE IF b = <<>> THEN FALSE
  ELSE IF Head(a) # Head(b) THEN Head(a) < Head(b)
  ELSE LexLess(Tail(a), Tail(b))

\* " ".join(sorted(S))
RECURSIVE SortedJoin(_)
SortedJoin(S) ==
  IF S = {} THEN <<>>
  ELSE LET m == CHOOSE t \in S : \A u \in S \ {t} : LexLess(t, u)
       IN IF S = {m} THEN m ELSE m \o <<SPACE>> \o SortedJoin(S \ {m})

\* length of a longest common subsequence
RECURSIVE LCS(_, _)
LCS(a, b) ==
  IF a = <<>> \/ b = <<>> THEN 0
  ELSE IF Head(a) = Head(b) THEN 1 + LCS(Tail(a), Tail(b))
  ELSE LET x == LCS(Tail(a), b)
           y == LCS(a, Tail(b))
       IN IF x >= y THEN x ELSE y

\* Indel distance: insertions and deletions only
IndelDistance(a, b) == Len(a) + Len(b) - 2 * LCS(a, b)

\* the ratios of the joined strings: diff-to-diff, and, when the token sets
\* intersect, intersection against each combined string
JoinedRatios(sect, ab, ba) ==
  LET sep == IF sect # <<>> THEN 1 ELSE 0
      sectAb == Len(sect) + sep + Len(ab)
      sectBa == Len(sect) + sep + Len(ba)
  IN {<<IndelDistance(ab, ba), sectAb + sectBa>>}
     \cup (IF sect = <<>> THEN {}
           ELSE {<<sep + Len(ab), Len(sect) + sectAb>>,
                 <<sep + Len(ba), Len(sect) + sectBa>>})

\* fuzz.token_set_ratio(s1, s2) as the set of the ratios <<dist, lensum>> whose
\* maximum it returns; a ratio is worth 100 * (1 - dist / lensum).  A and B
\* are the token sets, sect, ab and ba the sorted joins of their intersection
\* and differences, each computed once.
TokenSetRatios(s1, s2) ==
  UNION { IF A = {} \/ B = {} THEN {}
          ELSE IF A \cap B # {} /\ (A \ B = {} \/ B \ A = {}) THEN {<<0, 1>>}
          ELSE UNION { JoinedRatios(sect, ab, ba) :
                         sect \in {SortedJoin(A \cap B)},
                         ab \in {SortedJoin(A \ B)},
                         ba \in {SortedJoin(B \ A)} } :
          A \in {Tokens(s1)}, B \in {Tokens(s2)} }

\* a score under the threshold counts as a match
ScoreBelow(s1, s2, threshold) ==
  \E r \in TokenSetRatios(s1, s2) : 100 * (r[2] - r[1]) < threshold * r[2]

\* fuzz.token_set_ratio(s1, s2) > threshold
ScoreExceeds(s1, s2, threshold) ==
  \E r \in TokenSetRatios(s1, s2) : 100 * (r[2] - r[1]) > threshold * r[2]

----------------------------------------------------------------------------
(* The data of a run *)

Exams == 1..NumExams

\* the texts the content provider words its candidates with: "a", "c " and
\* "c a"
CandidateTexts == {<<1>>, <<3, SPACE>>, <<3, SPACE, 1>>}

\* the seed items of the initial store read "b" in exam 1 and "c" in the others
SeedText(e) == IF e = 1 THEN <<2>> ELSE <<3>>

\* the topic of the seed item of exam e: exams 1 and 2 share a topic
TopicOf(e) == IF e <= 2 THEN "grammar" ELSE "vocabulary"

SeedQid == <<0, 0, 0>>

\* one stored document of the collection examquestions
Item(question, topic, examSlug, qid) ==
  [question |-> question, topic |-> topic, examSlug |-> examSlug, qid |-> qid]

\* the provider's batches: candidate k carries the qid "GEN_k"
Batches ==
  UNION { [1..n -> CandidateTexts] : n \in 0..MaxCandidates }

\* random.randint(QUOTA_BACKOFF_MIN, QUOTA_BACKOFF_MAX), sampled at the ends and
\* in the middle of the window
QuotaWindow ==
  {QUOTA_BACKOFF_MIN, (QUOTA_BACKOFF_MIN + QUOTA_BACKOFF_MAX) \div 2, QUOTA_BACKOFF_MAX}

\* an exception: its class and whether str(e) contains "429"
Exc(kind, has429) == [kind |-> kind, has429 |-> has429]
NoExc == Exc("none", FALSE)

\* the provider's rate-limit error carries its HTTP status in its message
RateLimited == Exc("rate", TRUE)

StatKeys ==
  {"total_generated", "total_inserted", "total_duplicates",
   "exact_duplicates", "fuzzy_duplicates"}

VARIABLES
  phase,        \* where ContentAgent.run is: Scanning, Draining, Cooling, Stopped
  sleepFor,     \* the argument of the time.sleep that ends the round
  lastError,    \* the exception _handle_error was called with in this round
  interrupted,  \* KeyboardInterrupt raised while the pool is being drained
  sleeps,       \* time.sleep calls of the main thread in the current round
  printed,      \* _print_stats calls in the current round
  queue,        \* the executor's work queue: submitted tasks not yet started
  maxWorkers,   \* max_workers of the round's ThreadPoolExecutor
  task,         \* per exam: the future and the frame of its _process_exam call
  store,        \* the collection, a bag of documents
  stats,        \* ContentAgent._stats
  counter,      \* ContentAgent._question_counter
  candLeft,     \* candidates the provider may still return
  faultsLeft,   \* exceptions the store and the provider may still raise
  expected,     \* what _stats would hold had no update been lost
  probe         \* the arguments and the result of a function called on its own

vars == <<phase, sleepFor, lastError, interrupted, sleeps, printed, queue, maxWorkers, task, store,
          stats, counter, candLeft, faultsLeft, expected, probe>>

sched == <<phase, sleepFor, lastError, interrupted, sleeps, printed>>
pool == <<queue, maxWorkers>>
shared == <<store, stats, counter, expected>>
env == <<candLeft, faultsLeft>>

----------------------------------------------------------------------------
(* DBManager, src/db_manager.py *)

RECURSIVE BagOfSeq(_)
BagOfSeq(s) ==
  IF s = <<>> THEN EmptyBag ELSE SetToBag({Head(s)}) (+) BagOfSeq(Tail(s))

RECURSIVE SumOver(_, _)
SumOver(S, B) ==
  IF S = {} THEN 0
  ELSE LET x == CHOOSE y \in S : TRUE IN B[x] + SumOver(S \ {x}, B)

\* {"$group": {"_id": "$examSlug", "count": {"$sum": 1}}}
CountOf(db, e) == SumOver({d \in BagToSet(db) : d.examSlug = e}, db)

Orderings(S) ==
  { s \in [1..Cardinality(S) -> S] : \A i, j \in DOMAIN s : i # j => s[i] # s[j] }

\* the aggregation matches with $lte
get_low_count_exams_lte(db, threshold) ==
  LET groups == { d.examSlug : d \in BagToSet(db) }
      low == { e \in groups : CountOf(db, e) <= threshold }
  IN { s \in Orderings(low) :
         \A i, j \in DOMAIN s : i < j => CountOf(db, s[i]) <= CountOf(db, s[j]) }

\* get_low_count_exams: the orders in which the aggregation may return the groups
\* below the threshold, ascending by count
get_low_count_exams(db, threshold) ==
  LET groups == { d.examSlug : d \in BagToSet(db) }
      low == { e \in groups : CountOf(db, e) < threshold }
  IN { s \in Orderings(low) :
         \A i, j \in DOMAIN s : i < j => CountOf(db, s[i]) <= CountOf(db, s[j]) }

\* the seed sample is drawn from the whole collection
get_seed_questions_any(db, e) == BagToSet(db)

\* get_seed_questions: the documents of the exam
get_seed_questions(db, e) == { d \in BagToSet(db) : d.examSlug = e }

\* find_exact_match: a document whose question equals the stripped text
find_exact_match(db, text) ==
  \E d \in BagToSet(db) : d.question = Strip(text)

\* get_questions_by_topic: the question texts of every exam's documents of a topic
get_questions_by_topic(db, topic) ==
  { d.question : d \in { x \in BagToSet(db) : x.topic = topic } }

\* get_questions_by_topic_and_exam: never called by ContentAgent
get_questions_by_topic_and_exam(db, topic, e) ==
  { d.question : d \in { x \in BagToSet(db) : x.topic = topic /\ x.examSlug = e } }

----------------------------------------------------------------------------
(* ContentAgent, src/main.py *)

\* the fuzzy scores are looked at before the exact lookup
is_duplicate_fuzzy_first(db, text, existing, threshold) ==
  IF \E x \in existing : ScoreExceeds(text, x, threshold) THEN "fuzzy"
  ELSE IF find_exact_match(db, text) THEN "exact"
  ELSE "unique"

\* _is_duplicate with config.FUZZY_MATCH_THRESHOLD set to threshold: "exact",
\* "fuzzy" or "unique"
is_duplicate_with(db, text, existing, threshold) ==
  IF find_exact_match(db, text) THEN "exact"
  ELSE IF \E x \in existing : ScoreExceeds(text, x, threshold)
       THEN "fuzzy"
       ELSE "unique"

\* _is_duplicate as configured
is_duplicate(db, text, existing) ==
  is_duplicate_with(db, text, existing, FUZZY_MATCH_THRESHOLD)

\* Python's None
None == "None"

\* d.get(k, default) on a dict, a function from its keys
DictGet(d, k, default) == IF k \in DOMAIN d THEN d[k] ELSE default

\* lines 200-205: the keys assigned from seed.get(key)
SeedKeys == {"examId", "examSlug", "section", "sectionName", "topic", "subtopic"}

\* lines 207-214: the keys assigned next
SystemKeys == {"status", "__v", "tags", "qid"}

\* lines 216-218: the keys popped
PersistenceKeys == {"_id", "createdAt", "updatedAt"}

\* the seed's value fills the key only when the provider left it out
seed_field_setdefault(question, seed, key) ==
  DictGet(question, key, DictGet(seed, key, None))

\* lines 200-205: question[key] = seed.get(key)
seed_field(question, seed, key) == DictGet(seed, key, None)

\* _hydrate_question on the dicts question and seed, with the timestamp ts and
\* the value ctr of _question_counter read at line 214: the dict returned, key
\* by key
hydrate(question, seed, ts, ctr) ==
  [key \in (DOMAIN question \cup SeedKeys \cup SystemKeys) \ PersistenceKeys |->
     IF key \in SeedKeys THEN seed_field(question, seed, key)
     ELSE IF key = "status" THEN DEFAULT_STATUS
     ELSE IF key = "__v" THEN DEFAULT_VERSION
     ELSE IF key = "tags" THEN DictGet(question, "tags", <<>>)
     ELSE IF key = "qid" THEN <<DictGet(question, "qid", "GEN"), ts, ctr>>
     ELSE question[key]]

\* _hydrate_question of candidate k of a batch: the provider's item holds the
\* text and the qid "GEN_k"; of the hydrated document the fields question,
\* topic, examSlug and qid are kept
hydrate_question(k, text, seed, ts, ctr) ==
  LET h == hydrate([question |-> text, qid |-> k], seed, ts, ctr)
  IN Item(h.question, h.topic, h.examSlug, h.qid)

\* _handle_error: the sleeps it may choose for an exception
handle_error(e) ==
  IF e.has429 THEN QuotaWindow ELSE {RETRY_DELAY_SECONDS}

\* except clause of _process_exam (lines 137-140): is the exception re-raised
ReRaised(e) == e.has429

\* except clause around future.result() (lines 85-88): is the exception of a
\* failed task caught in the loop over as_completed
ResultCaught(e) == TRUE

\* no function has been called on its own
NoProbe == [fn |-> "none"]

NoSeed == [topic |-> "", examSlug |-> 0]

\* the frame of a task that is not executing.  missing is the position of the
\* first item of the parsed response that has no 'question' key (0: none),
\* calls the number of provider calls of the task, paused whether the task
\* has slept BATCH_DELAY_SECONDS.
Frame(st, exc) ==
  [st |-> st, pc |-> "", seed |-> NoSeed, batch |-> <<>>, existing |-> {},
   processed |-> <<>>, i |-> 0, cls |-> "", tmp |-> 0, ret |-> 0, written |-> 0,
   rejected |-> {}, insertError |-> "none", base |-> <<>>, exc |-> exc,
   missing |-> 0, calls |-> 0, paused |-> FALSE]

Idle == Frame("idle", NoExc)

Running == { e \in Exams : task[e].st = "running" }
Terminal == { e \in Exams : task[e].st \in {"done", "failed"} }
Submitted == { e \in Exams : task[e].st # "idle" }

\* the collection at start: one seed item per exam of starving, and
\* GAP_THRESHOLD seed items per other exam
InitialStore(starving) ==
  [ d \in { Item(SeedText(e), TopicOf(e), e, SeedQid) : e \in Exams } |->
      IF d.examSlug \in starving THEN 1 ELSE GAP_THRESHOLD ]

\* the fields of the agent and the environment of a run in which the provider
\* returns cands candidates, with ContentAgent.run at ph
InitAgentAt(ph, cands) ==
  /\ phase = ph
  /\ sleepFor = 0
  /\ lastError = NoExc
  /\ interrupted = FALSE
  /\ sleeps = 0
  /\ printed = 0
  /\ queue = <<>>
  /\ maxWorkers = 0
  /\ task = [e \in Exams |-> Idle]
  /\ stats = [k \in StatKeys |-> 0]
  /\ counter = 0
  /\ candLeft = cands
  /\ faultsLeft = MaxFaults
  /\ expected = [k \in StatKeys |-> 0]

\* ContentAgent.__init__: the agent before its first round, in a run in which
\* the provider returns cands candidates
InitAgentWith(cands) ==
  /\ InitAgentAt("Scanning", cands)
  /\ probe = NoProbe

InitAgent == InitAgentWith(MaxCandidates)

InitWith(starving) == InitAgent /\ store = InitialStore(starving)

----------------------------------------------------------------------------
(* ContentAgent._process_round and ContentAgent.run: the scheduler *)

\* the environment raises one more exception
Fault == faultsLeft > 0 /\ faultsLeft' = faultsLeft - 1

\* a pool as wide as the scan result
max_workers_unbounded(low) == Len(low)

\* line 79: max_workers = min(config.MAX_PARALLEL_EXAMS, len(low_count_exams))
max_workers(low) ==
  IF MAX_PARALLEL_EXAMS <= Len(low) THEN MAX_PARALLEL_EXAMS ELSE Len(low)

StoreErrors == { Exc("store", h) : h \in BOOLEAN }

\* the error handler lets the exception end run()
AfterHandleErrorCrash == "Stopped"

\* lines 94-95: _handle_error sleeps and returns; the round ends in that sleep
AfterHandleError == "Cooling"

\* the idle branch falls through to the dispatch
FallsThroughAfterIdleSleep == FALSE

\* line 74: the idle branch returns from _process_round after its sleep
ReturnsAfterIdleSleep == TRUE

\* line 80: ThreadPoolExecutor(max_workers=0) raises ValueError
PoolError == Exc("value", FALSE)

\* lines 65-81: the scan, then either the idle sleep, the error handler, or one
\* submitted task per returned group
Scan ==
  /\ phase = "Scanning"
  /\ \/ /\ Fault
        /\ \E x \in StoreErrors : lastError' = x /\ sleepFor' \in handle_error(x)
        /\ phase' = AfterHandleError
        /\ sleeps' = sleeps + 1
        /\ UNCHANGED <<pool, task, printed>>
     \/ /\ UNCHANGED faultsLeft
        /\ \E low \in get_low_count_exams(store, GAP_THRESHOLD) :
             IF low = <<>>
             THEN /\ phase' = "Cooling"
                  /\ printed' = printed + 1
                  /\ IF ReturnsAfterIdleSleep
                     THEN /\ sleepFor' = NO_GAPS_DELAY_SECONDS
                          /\ sleeps' = sleeps + 1
                          /\ UNCHANGED lastError
                     ELSE /\ lastError' = PoolError
                          /\ sleepFor' \in handle_error(PoolError)
                          /\ sleeps' = sleeps + 2
                  /\ UNCHANGED <<pool, task>>
             ELSE /\ phase' = "Draining"
                  /\ sleepFor' = 0
                  /\ UNCHANGED <<lastError, sleeps, printed>>
                  /\ maxWorkers' = max_workers(low)
                  /\ queue' = low
                  /\ task' = [e \in Exams |->
                               IF \E i \in DOMAIN low : low[i] = e
                               THEN Frame("queued", NoExc) ELSE Idle]
  /\ UNCHANGED <<interrupted, shared, candLeft>>
  /\ UNCHANGED probe

\* without the guard of line 104, random.choice(seeds) raises IndexError
no_seeds_raises == Frame("failed", Exc("index", FALSE))

\* lines 104-106: no seed question found: a warning is logged and _process_exam
\* returns
no_seeds_returns == Frame("done", NoExc)

\* the pool threads take the work item submitted last
work_item_last(q) == Len(q)

\* a pool thread's work_queue.get(): the position in the queue of the work item
\* it takes; the executor's queue is first in, first out
work_item(q) == 1

\* the queue q without the item at position k
Without(q, k) == [i \in 1..(Len(q) - 1) |-> IF i < k THEN q[i] ELSE q[i + 1]]

\* a pool thread takes the next task of the work queue and runs _process_exam
\* up to the provider call (lines 99-109): the seed sample is read outside the
\* try block, so a store error ends the task with that exception
Start(e) ==
  /\ queue # <<>>
  /\ queue[work_item(queue)] = e
  /\ Cardinality(Running) < maxWorkers
  /\ queue' = Without(queue, work_item(queue))
  /\ \/ /\ Fault
        /\ \E x \in StoreErrors : task' = [task EXCEPT ![e] = Frame("failed", x)]
     \/ /\ UNCHANGED faultsLeft
        /\ LET seeds == get_seed_questions(store, e)
           IN IF seeds = {}
              THEN task' = [task EXCEPT ![e] = no_seeds_returns]
              ELSE \E d \in seeds :
                     task' = [task EXCEPT ![e] =
                               [Frame("running", NoExc) EXCEPT
                                  !.seed = [topic |-> d.topic, examSlug |-> d.examSlug],
                                  !.pc = "generate"]]
  /\ UNCHANGED <<sched, maxWorkers, shared, candLeft>>
  /\ UNCHANGED probe

\* the exceptions of failed tasks that leave the loop over as_completed
Escaping == { task[e].exc : e \in { f \in Exams : task[f].st = "failed"
                                                    /\ ~ResultCaught(task[f].exc) } }

\* the round goes on as soon as one future has completed
PoolDrainedFirst == \E e \in Exams : task[e].st \in {"done", "failed"}

\* the round goes on as soon as one future has failed
PoolDrainedOnError ==
  (queue = <<>> /\ Running = {}) \/ \E e \in Exams : task[e].st = "failed"

\* the tasks still queued are cancelled once a task has failed
PoolDrainedCancelling ==
  Running = {} /\ (queue = <<>> \/ \E e \in Exams : task[e].st = "failed")

\* lines 80-88: the loop over as_completed(futures) ends and the with block
\* exits (shutdown(wait=True)) when no task is queued or executing
PoolDrained == queue = <<>> /\ Running = {}

\* lines 83-95 and 43-45: every future has completed; the pool is shut down; the
\* round ends with _print_stats and the inter-round sleep, or in the error
\* handler, or with the interrupt and the _print_stats of run()
RoundEnd ==
  /\ phase = "Draining"
  /\ PoolDrained
  /\ IF interrupted
     THEN /\ phase' = "Stopped"
          /\ sleepFor' = 0
          /\ printed' = printed + 1
          /\ UNCHANGED <<lastError, sleeps>>
     ELSE /\ phase' = IF Escaping = {} THEN "Cooling" ELSE AfterHandleError
          /\ sleeps' = sleeps + 1
          /\ IF Escaping = {}
             THEN /\ sleepFor' = ROUND_DELAY_SECONDS
                  /\ printed' = printed + 1
                  /\ UNCHANGED lastError
             ELSE /\ \E x \in Escaping : lastError' = x /\ sleepFor' \in handle_error(x)
                  /\ UNCHANGED printed
  /\ UNCHANGED <<interrupted, pool, task, shared, env>>
  /\ UNCHANGED probe

\* the sleep returns, _process_round returns and run() calls it again
Wake ==
  /\ phase = "Cooling"
  /\ phase' = "Scanning"
  /\ sleepFor' = 0
  /\ lastError' = NoExc
  /\ sleeps' = 0
  /\ printed' = 0
  /\ maxWorkers' = 0
  /\ task' = [e \in Exams |-> IF task[e].st \in {"done", "failed"} THEN Idle ELSE task[e]]
  /\ UNCHANGED <<interrupted, queue, shared, env>>
  /\ UNCHANGED probe

\* KeyboardInterrupt in the main thread: outside the pool it ends run(); inside
\* the with block the executor's shutdown(wait=True) runs first
Shutdown ==
  /\ Fault
  /\ ~interrupted
  /\ interrupted' = TRUE
  /\ \/ /\ phase \in {"Scanning", "Cooling"}
        /\ phase' = "Stopped"
        /\ sleepFor' = 0
        /\ printed' = printed + 1
     \/ /\ phase = "Draining"
        /\ UNCHANGED <<phase, sleepFor, printed>>
  /\ UNCHANGED <<lastError, sleeps>>
  /\ UNCHANGED <<pool, task, shared, candLeft>>
  /\ UNCHANGED probe

----------------------------------------------------------------------------
(* ContentAgent._process_exam: one task of the pool *)

At(e, pc) == task[e].st = "running" /\ task[e].pc = pc

\* the frame of exam e's task once it has ended
Ended(e, st, exc) == [Frame(st, exc) EXCEPT !.calls = task[e].calls]

\* the task of exam e ends: its future holds a result, or the exception exc
Finish(e, st, exc) == task' = [task EXCEPT ![e] = Ended(e, st, exc)]

\* the frame after an exception raised inside the try block has reached the
\* except clause (lines 137-140): re-raised out of the task, or logged and the
\* task returns; line 135 is skipped
Raised(e, exc) ==
  IF ReRaised(exc) THEN Ended(e, "failed", exc) ELSE Ended(e, "done", NoExc)

Raise(e, exc) ==
  IF ReRaised(exc) THEN Finish(e, "failed", exc) ELSE Finish(e, "done", NoExc)

\* line 135 and the implicit return: the task sleeps BATCH_DELAY_SECONDS and
\* returns
SleepAndReturn(e) ==
  task' = [task EXCEPT ![e] = [Ended(e, "done", NoExc) EXCEPT !.paused = TRUE]]

\* what ai.generate and _parse_ai_response raise
ProviderErrors ==
  {RateLimited} \cup { Exc(k, h) : k \in {"provider", "parse"}, h \in BOOLEAN }

\* what subscripting an item without 'question' (or a response that is not a
\* list) raises: KeyError or TypeError, no "429" in its message
ShapeError == Exc("key", FALSE)

\* the positions at which a parsed response of n items may first lack the
\* 'question' key; a JSON object or string of length n behaves as position 1
\* (new_questions[0] at line 120)
MalformedAt(n) == 1..n

\* the worker calls the provider again after an error
provider_error_retried(e, exc) == [task[e] EXCEPT !.calls = @ + 1]

\* lines 112-113 and 137-140: the frame after ai.generate or the parser has
\* raised: the exception goes to the except clause, the call is not repeated
provider_error(e, exc) == [Raised(e, exc) EXCEPT !.calls = @ + 1]

\* lines 112-116: the provider call, the parse, and the load of
\* _stats['total_generated'].  json.loads accepts every JSON value: the
\* response is a list of well-formed items, or has an item without 'question'.
WGenerate(e) ==
  /\ At(e, "generate")
  /\ \/ /\ Fault
        /\ \E x \in ProviderErrors :
             task' = [task EXCEPT ![e] = provider_error(e, x)]
        /\ UNCHANGED candLeft
     \/ /\ \E b \in Batches :
             /\ Len(b) <= candLeft
             /\ candLeft' = candLeft - Len(b)
             /\ \/ /\ UNCHANGED faultsLeft
                   /\ task' = [task EXCEPT ![e].batch = b,
                                           ![e].base = stats,
                                           ![e].tmp = stats["total_generated"],
                                           ![e].calls = @ + 1,
                                           ![e].pc = "genStore"]
                \/ /\ Fault
                   /\ \E m \in MalformedAt(Len(b)) :
                        task' = [task EXCEPT ![e].batch = b,
                                             ![e].base = stats,
                                             ![e].tmp = stats["total_generated"],
                                             ![e].missing = m,
                                             ![e].calls = @ + 1,
                                             ![e].pc = "genStore"]
  /\ UNCHANGED <<sched, pool, shared>>
  /\ UNCHANGED probe

\* the store that completes `_stats[key] += n` in the task of exam e
AddStat(e, key, n) ==
  /\ stats' = [stats EXCEPT ![key] = task[e].tmp + n]
  /\ expected' = [expected EXCEPT ![key] = @ + n]

\* lines 116-121: the store of _stats['total_generated'], then the sample of
\* the first item's 'question'
WGenStore(e) ==
  /\ At(e, "genStore")
  /\ AddStat(e, "total_generated", Len(task[e].batch))
  /\ IF task[e].missing = 1
     THEN Raise(e, ShapeError)
     ELSE task' = [task EXCEPT ![e].pc = "fetch"]
  /\ UNCHANGED <<sched, pool, store, counter, env>>
  /\ UNCHANGED probe

\* where the loop of _process_questions goes after candidate i
AfterCandidate(e) ==
  IF task[e].i < Len(task[e].batch) THEN "classify" ELSE "tdLoad"

\* lines 149-156: the reference texts of the seed's topic
WFetch(e) ==
  /\ At(e, "fetch")
  /\ \/ /\ Fault
        /\ \E x \in StoreErrors : Raise(e, x)
     \/ /\ UNCHANGED faultsLeft
        /\ task' = [task EXCEPT
                     ![e].existing = get_questions_by_topic(store, task[e].seed.topic),
                     ![e].i = 1,
                     ![e].pc = IF task[e].batch = <<>> THEN "tdLoad" ELSE "classify"]
  /\ UNCHANGED <<sched, pool, shared, candLeft>>
  /\ UNCHANGED probe

\* every duplicate counted as a fuzzy one
DupKeyFuzzy(cls) == "fuzzy_duplicates"

DupKey(cls) == IF cls = "exact" THEN "exact_duplicates" ELSE "fuzzy_duplicates"

\* lines 157-162 and 211: q['question'] is read and candidate i is classified
\* (an item without the key raises KeyError); then the load of the
\* duplicate counter, or of _question_counter
WClassify(e) ==
  /\ At(e, "classify")
  /\ \/ /\ Fault
        /\ \E x \in StoreErrors : Raise(e, x)
     \/ /\ UNCHANGED faultsLeft
        /\ IF task[e].i = task[e].missing
           THEN Raise(e, ShapeError)
           ELSE LET cls == is_duplicate(store, task[e].batch[task[e].i],
                                        task[e].existing)
                IN task' = [task EXCEPT
                             ![e].cls = cls,
                             ![e].tmp = IF cls = "unique" THEN counter
                                        ELSE stats[DupKey(cls)],
                             ![e].pc = IF cls = "unique" THEN "ctrStore"
                                       ELSE "dupStore"]
  /\ UNCHANGED <<sched, pool, shared, candLeft>>
  /\ UNCHANGED probe

\* lines 160-164: the store of the duplicate counter; continue
WDupStore(e) ==
  /\ At(e, "dupStore")
  /\ AddStat(e, DupKey(task[e].cls), 1)
  /\ task' = [task EXCEPT ![e].i = @ + 1, ![e].pc = AfterCandidate(e)]
  /\ UNCHANGED <<sched, pool, store, counter, env>>
  /\ UNCHANGED probe

\* line 211: the store of _question_counter
WCtrStore(e) ==
  /\ At(e, "ctrStore")
  /\ counter' = task[e].tmp + 1
  /\ task' = [task EXCEPT ![e].pc = "ctrRead"]
  /\ UNCHANGED <<sched, pool, store, stats, expected, env>>
  /\ UNCHANGED probe

\* lines 212-220 and 167: the timestamp, the counter read back into the qid,
\* the hydrated candidate appended to processed
WCtrRead(e) ==
  /\ At(e, "ctrRead")
  /\ \E ts \in 0..MaxClock :
       task' = [task EXCEPT
                 ![e].processed =
                    Append(@, hydrate_question(task[e].i, task[e].batch[task[e].i],
                                               task[e].seed, ts, counter)),
                 ![e].i = @ + 1,
                 ![e].pc = AfterCandidate(e)]
  /\ UNCHANGED <<sched, pool, shared, env>>
  /\ UNCHANGED probe

\* line 171: the load of _stats['total_duplicates']
WTdLoad(e) ==
  /\ At(e, "tdLoad")
  /\ task' = [task EXCEPT ![e].tmp = stats["total_duplicates"], ![e].pc = "tdStore"]
  /\ UNCHANGED <<sched, pool, shared, env>>
  /\ UNCHANGED probe

\* lines 170-176, 125 and 132-135: the store of _stats['total_duplicates'];
\* with nothing to insert the task sleeps BATCH_DELAY_SECONDS and returns
WTdStore(e) ==
  /\ At(e, "tdStore")
  /\ AddStat(e, "total_duplicates", Len(task[e].batch) - Len(task[e].processed))
  /\ IF task[e].processed # <<>>
     THEN task' = [task EXCEPT ![e].pc = "insert"]
     ELSE SleepAndReturn(e)
  /\ UNCHANGED <<sched, pool, store, counter, env>>
  /\ UNCHANGED probe

\* the documents of questions at the positions acc, as a bag
RECURSIVE BagOfPicked(_, _)
BagOfPicked(questions, acc) ==
  IF acc = {} THEN EmptyBag
  ELSE LET k == CHOOSE j \in acc : TRUE
       IN SetToBag({questions[k]}) (+) BagOfPicked(questions, acc \ {k})

\* insert_many called without ordered=False: pymongo's default
ordered_default == TRUE

\* line 146: insert_many(questions, ordered=False)
ordered == FALSE

\* collection.insert_many: the positions of questions the store writes when it
\* rejects the documents at the positions rejected.  An ordered insert stops at
\* the first rejected document, an unordered one attempts every document.
insert_many(questions, rejected) ==
  IF ordered
  THEN { k \in DOMAIN questions : \A j \in 1..k : j \notin rejected }
  ELSE DOMAIN questions \ rejected

\* lines 153-159: the value returned after a BulkWriteError, the number of the
\* batch's questions that find_exact_match finds in the collection
count_after_partial(db, questions) ==
  Len(questions)
    - Cardinality({ k \in DOMAIN questions :
                      ~find_exact_match(db, questions[k].question) })

\* bulk_insert_questions (src/db_manager.py) when insert_many raises: the
\* collection after the call, the value returned, and what the store did.  A
\* BulkWriteError ("writeErrors" in its message) for the documents at rejected;
\* or any other error, nothing written, 0 returned.
bulk_insert_failures(db, questions) ==
  { LET acc == insert_many(questions, rejected)
        after == db (+) BagOfPicked(questions, acc)
    IN [db |-> after, ret |-> count_after_partial(after, questions),
        written |-> Cardinality(acc), rejected |-> rejected,
        insertError |-> "BulkWriteError"] :
      rejected \in (SUBSET DOMAIN questions) \ {{}} }
  \cup {[db |-> db, ret |-> 0, written |-> 0, rejected |-> DOMAIN questions,
          insertError |-> "other"]}

\* bulk_insert_questions when insert_many(ordered=False) succeeds
bulk_insert_success(db, questions) ==
  [db |-> db (+) BagOfSeq(questions), ret |-> Len(questions),
   written |-> Len(questions), rejected |-> {}, insertError |-> "none"]

\* line 126: the bulk insert of the hydrated batch
WInsert(e) ==
  /\ At(e, "insert")
  /\ \E r \in IF faultsLeft > 0
              THEN bulk_insert_failures(store, task[e].processed)
                   \cup {bulk_insert_success(store, task[e].processed)}
              ELSE {bulk_insert_success(store, task[e].processed)} :
       /\ store' = r.db
       /\ faultsLeft' = IF r = bulk_insert_success(store, task[e].processed)
                        THEN faultsLeft ELSE faultsLeft - 1
       /\ task' = [task EXCEPT ![e].ret = r.ret, ![e].written = r.written,
                               ![e].rejected = r.rejected,
                               ![e].insertError = r.insertError,
                               ![e].pc = "insLoad"]
  /\ UNCHANGED <<sched, pool, stats, counter, expected, candLeft>>
  /\ UNCHANGED probe

\* line 127: the load of _stats['total_inserted']
WInsLoad(e) ==
  /\ At(e, "insLoad")
  /\ task' = [task EXCEPT ![e].tmp = stats["total_inserted"], ![e].pc = "insStore"]
  /\ UNCHANGED <<sched, pool, shared, env>>
  /\ UNCHANGED probe

\* lines 127-135: the store of _stats['total_inserted']; the task sleeps
\* BATCH_DELAY_SECONDS and returns
WInsStore(e) ==
  /\ At(e, "insStore")
  /\ AddStat(e, "total_inserted", task[e].ret)
  /\ SleepAndReturn(e)
  /\ UNCHANGED <<sched, pool, store, counter, env>>
  /\ UNCHANGED probe

Worker(e) ==
  \/ WGenerate(e) \/ WGenStore(e) \/ WFetch(e) \/ WClassify(e) \/ WDupStore(e)
  \/ WCtrStore(e) \/ WCtrRead(e) \/ WTdLoad(e) \/ WTdStore(e) \/ WInsert(e)
  \/ WInsLoad(e) \/ WInsStore(e)

Next ==
  \/ Scan
  \/ \E e \in Exams : Start(e)
  \/ \E e \in Exams : Worker(e)
  \/ RoundEnd
  \/ Wake
  \/ Shutdown

\* the store holds two exams below the threshold and one that has reached it
Init == InitWith(Exams \ {NumExams})

Spec == Init /\ [][Next]_vars

\* every exam of the store is below the threshold: more tasks than pool threads
InitPool == InitWith(Exams)

SpecPool == InitPool /\ [][Next]_vars

\* one exam is below the threshold: its worker runs with no other worker
InitSolo == InitWith({1})

SpecSolo == InitSolo /\ [][Next]_vars

\* another client of the collection removes the documents of exam e after the
\* scan has returned the exam and before its task reads the seed sample
ExternalDelete(e) ==
  /\ task[e].st = "queued"
  /\ get_seed_questions(store, e) # {}
  /\ store' = [ d \in { x \in BagToSet(store) : x.examSlug # e } |-> store[d] ]
  /\ UNCHANGED <<sched, pool, task, stats, counter, expected, env, probe>>

\* the agent with one starving exam whose documents may be removed
SpecVanish == InitSolo /\ [][Next \/ \E e \in Exams : ExternalDelete(e)]_vars

\* the steps of the program other than the interrupt
Progress ==
  \/ Scan
  \/ \E e \in Exams : Start(e)
  \/ \E e \in Exams : Worker(e)
  \/ RoundEnd
  \/ Wake

\* store and provider calls return, threads are scheduled, sleeps end
FairSpec == Spec /\ WF_vars(Progress)

\* every exam of the store is below the threshold, in a run in which the
\* provider returns PoolCandidates candidates
InitQueue == InitAgentWith(PoolCandidates) /\ store = InitialStore(Exams)

\* more tasks than pool threads, with the same scheduling
FairSpecQueue == InitQueue /\ [][Next]_vars /\ WF_vars(Progress)

----------------------------------------------------------------------------
(* DBManager.get_low_count_exams on its own: every store content, every
   threshold *)

\* the collection with cnt[e] seed documents of exam e
StoreOf(cnt) ==
  [ d \in { Item(SeedText(e), TopicOf(e), e, SeedQid) :
              e \in { x \in Exams : cnt[x] > 0 } } |-> cnt[d.examSlug] ]

InitScanner ==
  /\ InitAgent
  /\ \E cnt \in [Exams -> 0..MaxCount] : store = StoreOf(cnt)

\* a call of get_low_count_exams(threshold)
CallScan ==
  /\ probe = NoProbe
  /\ \E t \in 0..(MaxCount + 1) :
       \E low \in get_low_count_exams(store, t) :
         probe' = [fn |-> "get_low_count_exams", threshold |-> t, low |-> low]
  /\ UNCHANGED <<sched, pool, task, shared, env>>

\* the scanner alone, and the scan and dispatch of _process_round
SpecScanner == InitScanner /\ [][CallScan \/ Scan]_vars

----------------------------------------------------------------------------
(* ContentAgent._is_duplicate on its own: several stores, every candidate
   text, every threshold *)

\* config.FUZZY_MATCH_THRESHOLD ranges over 0-100
Thresholds == 0..100

\* the candidate texts classified: those of the provider, "a d" and ""
FilterTexts == CandidateTexts \cup {<<1, SPACE, 4>>, <<>>}

\* documents of exam 2 added to the initial store: "a" and "c a"
FilterStores ==
  { InitialStore(Exams) (+) SetToBag(S) :
      S \in SUBSET { Item(t, TopicOf(2), 2, <<1, 0, 1>>) : t \in {<<1>>, <<3, SPACE, 1>>} } }

InitFilter ==
  /\ InitAgent
  /\ store \in FilterStores

\* one candidate classified against the texts of one topic under two settings
\* of the threshold
CallIsDuplicate ==
  /\ probe = NoProbe
  /\ \E text \in FilterTexts, e \in Exams, t1 \in Thresholds, t2 \in Thresholds :
       /\ t1 <= t2
       /\ LET existing == get_questions_by_topic(store, TopicOf(e))
          IN probe' = [fn |-> "_is_duplicate", text |-> text, existing |-> existing,
                       t1 |-> t1, r1 |-> is_duplicate_with(store, text, existing, t1),
                       t2 |-> t2, r2 |-> is_duplicate_with(store, text, existing, t2)]
  /\ UNCHANGED <<sched, pool, task, shared, env>>

SpecThreshold == InitFilter /\ [][CallIsDuplicate]_vars

\* the filter records the text it has classified
after_is_duplicate_recording(db, text) ==
  db (+) SetToBag({Item(Strip(text), "", 0, SeedQid)})

\* lines 186-196: _is_duplicate only reads the collection (find_one) and
\* computes scores; the collection after a call
after_is_duplicate(db, text) == db

\* _is_duplicate called on a text against the reference texts of a topic,
\* once and then a second time
CallTwice ==
  /\ \/ /\ probe = NoProbe
        /\ \E text \in FilterTexts, e \in Exams :
             LET existing == get_questions_by_topic(store, TopicOf(e))
             IN /\ probe' = [fn |-> "_is_duplicate twice", text |-> text,
                             existing |-> existing, db |-> store, stats |-> stats,
                             results |-> <<is_duplicate(store, text, existing)>>,
                             inserted |-> FALSE]
                /\ store' = after_is_duplicate(store, text)
     \/ /\ probe # NoProbe
        /\ Len(probe.results) = 1
        /\ probe' = [probe EXCEPT !.results =
                       Append(@, is_duplicate(store, probe.text, probe.existing))]
        /\ store' = after_is_duplicate(store, probe.text)
  /\ UNCHANGED <<sched, pool, task, stats, counter, expected, env>>

\* another worker's bulk insert lands between the two calls
InsertBetween ==
  /\ probe # NoProbe
  /\ Len(probe.results) = 1
  /\ ~probe.inserted
  /\ \E t \in CandidateTexts, e \in Exams :
       store' = store (+) SetToBag({Item(t, TopicOf(e), e, <<1, 1, 1>>)})
  /\ probe' = [probe EXCEPT !.inserted = TRUE]
  /\ UNCHANGED <<sched, pool, task, stats, counter, expected, env>>

SpecClassify == InitFilter /\ [][CallTwice \/ InsertBetween]_vars

----------------------------------------------------------------------------
(* ContentAgent._hydrate_question on its own: every set of keys the provider
   may echo back, several seeds *)

\* the keys a provider's item may carry besides question and qid
EchoKeys == SeedKeys \cup {"status", "__v"} \cup PersistenceKeys

\* the value the provider gives an echoed key: never the seed's, never the
\* default
Echo(key) ==
  IF key \in {"examSlug", "examId"} THEN NumExams + 1
  ELSE IF key = "__v" THEN DEFAULT_VERSION + 1
  ELSE "echoed"

ProviderItems ==
  { [key \in {"question", "qid"} \cup K |->
       IF key = "question" THEN <<1>> ELSE IF key = "qid" THEN 1 ELSE Echo(key)] :
      K \in SUBSET EchoKeys }

\* the seeds: the documents of the initial store, and documents that also
\* have a section, a section name and a subtopic
SeedDicts ==
  { [topic |-> TopicOf(e), examSlug |-> e] : e \in Exams }
  \cup { [topic |-> TopicOf(e), examSlug |-> e, section |-> "english",
          sectionName |-> "English", subtopic |-> "tenses"] : e \in Exams }

InitHydrate == InitWith(Exams)

\* a call of _hydrate_question(question, seed)
CallHydrate ==
  /\ probe = NoProbe
  /\ counter' = counter + 1
  /\ \E question \in ProviderItems, seed \in SeedDicts, ts \in 0..MaxClock :
       probe' = [fn |-> "_hydrate_question", question |-> question, seed |-> seed,
                 out |-> hydrate(question, seed, ts, counter')]
  /\ UNCHANGED <<sched, pool, task, store, stats, expected, env>>

SpecHydrate == InitHydrate /\ [][CallHydrate]_vars

----------------------------------------------------------------------------
(* QuestionGenerator.generate (src/generator.py), the authors' test of it
   (src/test_generator.py) and ContentAgent._parse_ai_response.  A JSON text
   is a sequence of tokens; the text of one generated question is one token. *)

JArray(items) == [kind |-> "array", items |-> items]
JObject(members) == [kind |-> "object", members |-> members]

\* the texts of the generated questions, each the JSON text of an object
QuestionTokens == {"q1", "q2", "q3", "q4"}

RECURSIVE JoinComma(_)
JoinComma(items) ==
  IF items = <<>> THEN <<>>
  ELSE IF Len(items) = 1 THEN items
  ELSE <<Head(items), ",">> \o JoinComma(Tail(items))

\* json.dumps of a list of questions, or of an object whose members are lists
RECURSIVE dumps(_)
dumps(v) ==
  IF v.kind = "array" THEN <<"[">> \o JoinComma(v.items) \o <<"]">>
  ELSE IF DOMAIN v.members = {} THEN <<"{", "}">>
  ELSE LET key == CHOOSE k \in DOMAIN v.members : TRUE
       IN <<"{", key, ":">> \o dumps(v.members[key]) \o <<"}">>

\* the elements of a comma-separated token sequence
SplitComma(t) == [i \in 1..((Len(t) + 1) \div 2) |-> t[2 * i - 1]]

\* json.loads of a text produced by dumps
RECURSIVE loads(_)
loads(t) ==
  IF Head(t) = "[" THEN JArray(SplitComma(SubSeq(t, 2, Len(t) - 1)))
  ELSE IF Len(t) = 2 THEN JObject(<<>>)
  ELSE JObject([key \in {t[2]} |-> loads(SubSeq(t, 4, Len(t) - 1))])

\* the content of the model's message under the response schema of
\* QuestionGenerator._SCHEMA: an object with the key 'questions'; an object
\* without the key when the schema was not honoured
ModelContents ==
  { JObject([key \in {"questions"} |-> JArray(items)]) :
      items \in UNION { [1..n -> QuestionTokens] : n \in 0..MaxQuestions } }
  \cup {JObject(<<>>)}

\* generator.py lines 113-117: content = json.loads(message.content);
\* questions = content.get('questions', []); return json.dumps(questions)
generate(content) ==
  dumps(JArray(IF "questions" \in DOMAIN loads(content).members
               THEN loads(content).members["questions"].items
               ELSE <<>>))

\* test_generator.py lines 42-46: the branch that reports success
test_accepts(response) ==
  LET data == loads(response)
  IN data.kind = "object" /\ "questions" \in DOMAIN data.members

\* the Markdown code fences, with and without the language tag
IsNotFence(token) == token \notin {"fence json", "fence"}

\* main.py lines 144-145: the code fences removed, then json.loads
parse_ai_response(raw_response) == loads(SelectSeq(raw_response, IsNotFence))

InitGenerate == InitWith(Exams)

\* a call of generate(seed_json, count): the seed shapes the prompt only
CallGenerate ==
  /\ probe = NoProbe
  /\ \E d \in UNION { get_seed_questions(store, e) : e \in Exams },
        content \in ModelContents :
       LET returned == generate(dumps(content))
       IN probe' = [fn |-> "generate", seed |-> d, content |-> content,
                    returned |-> returned,
                    accepted |-> test_accepts(returned),
                    parsed |-> parse_ai_response(returned)]
  /\ UNCHANGED <<sched, pool, task, shared, env>>

SpecGenerate == InitGenerate /\ [][CallGenerate]_vars

----------------------------------------------------------------------------
(* A text the provider returns in one round and again in a later one: the
   first is filtered, hydrated and inserted, the second is classified *)

\* "a", "a ", " a", "d" and "d "
RepeatTexts == {<<1>>, <<1, SPACE>>, <<SPACE, 1>>, <<4>>, <<4, SPACE>>}

InitRepeat == InitWith(Exams)

\* an earlier round: the candidate text is unique for the seed of exam e, is
\* hydrated (lines 166-167) and inserted (line 126)
InsertEarlier ==
  /\ probe = NoProbe
  /\ \E text \in RepeatTexts, e \in Exams, ts \in 0..MaxClock :
       LET seed == [topic |-> TopicOf(e), examSlug |-> e]
           doc == hydrate_question(1, text, seed, ts, counter + 1)
       IN /\ is_duplicate(store, text, get_questions_by_topic(store, seed.topic))
               = "unique"
          /\ store' = bulk_insert_success(store, <<doc>>).db
          /\ probe' = [fn |-> "inserted", text |-> text, doc |-> doc]
  /\ counter' = counter + 1
  /\ UNCHANGED <<sched, pool, task, stats, expected, env>>

\* a later round: the provider returns a text for the seed of exam e and
\* _is_duplicate classifies it
ClassifyAgain ==
  /\ probe.fn = "inserted"
  /\ \E text \in RepeatTexts, e \in Exams :
       probe' = [fn |-> "_is_duplicate again", text |-> text, doc |-> probe.doc,
                 examSlug |-> e,
                 result |-> is_duplicate(store, text,
                                         get_questions_by_topic(store, TopicOf(e)))]
  /\ UNCHANGED <<sched, pool, task, shared, env>>

SpecRepeat == InitRepeat /\ [][InsertEarlier \/ ClassifyAgain]_vars

----------------------------------------------------------------------------
(* Start-up: main() constructs ContentAgent and calls run() *)

\* the attributes class Config defines (src/config.py lines 9-42)
ConfigAttrs ==
  {"MONGO_URI", "DB_NAME", "COLLECTION_NAME", "OPENAI_API_KEY", "MODEL_NAME",
   "GAP_THRESHOLD", "BATCH_SIZE", "SEED_SAMPLE_SIZE", "FUZZY_MATCH_THRESHOLD",
   "MAX_PARALLEL_EXAMS", "BATCH_DELAY_SECONDS", "ROUND_DELAY_SECONDS",
   "NO_GAPS_DELAY_SECONDS", "RETRY_DELAY_SECONDS", "QUOTA_BACKOFF_MIN",
   "QUOTA_BACKOFF_MAX", "DEFAULT_STATUS", "DEFAULT_VERSION"}

\* main.py lines 24-25: the attributes of config that __init__ reads, in order
InitReads == <<"MONGO_URI", "DB_NAME", "PROJECT_ID", "LOCATION", "MODEL_NAME">>

\* main.py line 25: the positional arguments passed to QuestionGenerator
GeneratorArgs == <<"PROJECT_ID", "LOCATION", "MODEL_NAME">>

\* generator.py line 58: the parameters of QuestionGenerator.__init__ after self
GeneratorParams == <<"api_key", "model_name">>

\* ContentAgent.__init__ (main.py lines 23-33): the exception it raises, or NoExc.
\* DBManager.__init__ connects lazily and swallows index errors; reading an
\* attribute Config lacks raises AttributeError; a call with more positional
\* arguments than parameters raises TypeError.
construct ==
  IF \E i \in DOMAIN InitReads : InitReads[i] \notin ConfigAttrs
  THEN Exc("attribute", FALSE)
  ELSE IF Len(GeneratorArgs) > Len(GeneratorParams)
  THEN Exc("type", FALSE)
  ELSE NoExc

\* the process environment: is the variable set (os.getenv returns None if not)
EnvVars == {"MONGO_URI", "OPENAI_API_KEY"}

\* the process has loaded its modules: config exists, the agent does not yet;
\* any content of the collection, any environment
InitStartup ==
  /\ InitAgentAt("Starting", MaxCandidates)
  /\ \E cnt \in [Exams -> 0..MaxCount] : store = StoreOf(cnt)
  /\ \E ev \in [EnvVars -> BOOLEAN] : probe = [fn |-> "main", env |-> ev]

\* main.py lines 236-238: agent = ContentAgent(); agent.run().  An exception of
\* the constructor is not caught and ends the process.
Construct ==
  /\ phase = "Starting"
  /\ IF construct = NoExc
     THEN phase' = "Scanning" /\ UNCHANGED lastError
     ELSE phase' = "Crashed" /\ lastError' = construct
  /\ UNCHANGED <<sleepFor, interrupted, sleeps, printed, pool, task, shared, env, probe>>

SpecStartup == InitStartup /\ [][Construct]_vars

----------------------------------------------------------------------------
(* Properties *)

Failed == { e \in Exams : task[e].st = "failed" }
RateLimitedTasks == { e \in Failed : task[e].exc.kind = "rate" }

\* the documents this program inserted
Inserted == { d \in BagToSet(store) : d.qid # SeedQid }

\* C1: if a worker's provider call raised the rate-limit error in a round, the
\* sleep that ends the round is within [QUOTA_BACKOFF_MIN, QUOTA_BACKOFF_MAX]
\* and the round's error handler received that error.
C1_RateLimitBackoff ==
  (phase = "Cooling" /\ RateLimitedTasks # {}) =>
    /\ sleepFor \in QUOTA_BACKOFF_MIN..QUOTA_BACKOFF_MAX
    /\ lastError = RateLimited

\* C2: the number of tasks executing at the same instant never exceeds
\* MAX_PARALLEL_EXAMS, however many groups the scan returned.
C2_BoundedPool == Cardinality(Running) <= MAX_PARALLEL_EXAMS

\* the pool is full and a group waits queued behind the bound
C2_Witness == Cardinality(Running) = MAX_PARALLEL_EXAMS /\ queue # <<>>

\* C3: a round is a barrier: outside Draining (in Cooling, in the next round's
\* scan, after shutdown) no submitted task is queued or executing.
C3_RoundBarrier ==
  phase # "Draining" => (queue = <<>> /\ Running = {})

\* a round of at least two tasks has ended and the scheduler is cooling
C3_Witness ==
  phase = "Cooling" /\ sleepFor = ROUND_DELAY_SECONDS /\ Cardinality(Terminal) >= 2

\* C4: no two inserted items share the question text within one (topic, group).
C4_AtMostOncePerText ==
  \A d1 \in Inserted :
    /\ store[d1] = 1
    /\ \A d2 \in Inserted :
         (d1.question = d2.question /\ d1.topic = d2.topic
            /\ d1.examSlug = d2.examSlug) => d1 = d2

\* the ids of the candidates hydrated so far by the task of exam e
HydratedIds(e) == { task[e].processed[k].qid : k \in DOMAIN task[e].processed }

\* C5: two hydrations by concurrently running workers never produce the same
\* qid.
C5_UniqueIds ==
  \A e, f \in Running : e # f => HydratedIds(e) \cap HydratedIds(f) = {}

\* C6: when the workers of a round have all terminated, every counter of
\* _stats holds the sum of the amounts the workers added: no update was lost.
C6_NoLostUpdate ==
  (phase \in {"Cooling", "Scanning"} /\ PoolDrained) => stats = expected

\* C7: an exception raised in one worker does not stop the scheduler (only an
\* interrupt does), the round ends with every submitted task terminal, in the
\* ordinary inter-round sleep, and the scheduler reaches Cooling.
C7_FailureIsolated ==
  /\ [](Failed # {} =>
          /\ phase = "Stopped" => interrupted
          /\ phase = "Cooling" =>
               /\ queue = <<>> /\ Running = {}
               /\ sleepFor = ROUND_DELAY_SECONDS)
  /\ (Failed # {} ~> phase \in {"Cooling", "Stopped"})

\* one task has failed, another has returned, and the scheduler is cooling
C7_Witness ==
  /\ phase = "Cooling"
  /\ sleepFor = ROUND_DELAY_SECONDS
  /\ \E e \in Failed : \E f \in Exams \ {e} : task[f].st = "done"

\* C8: only the provider's rate-limit error propagates out of _process_exam.
C8_OnlyRateLimitPropagates ==
  \A e \in Failed : task[e].exc.kind = "rate"

\* C9: the process stops only on an interrupt, and unless interrupted it
\* scans again and again, also after a round-level error.
C9_NeverTerminatesOnError ==
  /\ [](phase = "Stopped" => interrupted)
  /\ []<>(phase = "Scanning" \/ interrupted)
  /\ (lastError # NoExc ~> (phase = "Scanning" \/ interrupted))

\* the scan has failed and the scheduler sleeps the retry delay
C9_Witness ==
  phase = "Cooling" /\ lastError.kind = "store" /\ sleepFor = RETRY_DELAY_SECONDS

\* C10: a failed scan dispatches no worker and cools for RETRY_DELAY_SECONDS.
C10_ScanFailureRetryDelay ==
  (phase = "Cooling" /\ lastError.kind = "store") =>
    /\ Submitted = {}
    /\ sleepFor = RETRY_DELAY_SECONDS

\* C11: a round sleeps exactly once in the main thread, and without a round-level
\* error the interval follows the outcome: an empty scan dispatches no task and
\* sleeps NO_GAPS_DELAY_SECONDS; a round whose dispatched tasks are all terminal
\* sleeps ROUND_DELAY_SECONDS.
C11_SleepOncePerOutcome ==
  /\ phase \in {"Scanning", "Draining"} => sleeps = 0
  /\ phase = "Cooling" =>
       /\ sleeps = 1
       /\ lastError = NoExc =>
            /\ sleepFor = NO_GAPS_DELAY_SECONDS <=> Submitted = {}
            /\ Submitted = {} => get_low_count_exams(store, GAP_THRESHOLD) = {<<>>}
            /\ Submitted # {} =>
                 /\ Terminal = Submitted
                 /\ queue = <<>>
                 /\ sleepFor = ROUND_DELAY_SECONDS

\* every exam has reached the threshold after insertions and the round idles
C11_Witness ==
  /\ phase = "Cooling"
  /\ lastError = NoExc
  /\ sleepFor = NO_GAPS_DELAY_SECONDS
  /\ Inserted # {}

\* C12: a candidate is classified a fuzzy duplicate only if a stored text of the
\* seed's topic and the seed's group scores above the threshold against it.
C12_FuzzyScopedToGroup ==
  \A e \in Exams :
    (At(e, "dupStore") /\ task[e].cls = "fuzzy") =>
      \E x \in get_questions_by_topic_and_exam(store, task[e].seed.topic,
                                                task[e].seed.examSlug) :
        ScoreExceeds(task[e].batch[task[e].i], x, FUZZY_MATCH_THRESHOLD)

\* the groups a sequence of the scanner names
Range(s) == { s[i] : i \in DOMAIN s }

\* C13: get_low_count_exams returns exactly the groups of the store whose count
\* is below the threshold, each once, in non-decreasing order of count; and
\* _process_round submits a task for exactly those groups, in that order.
C13_ScanBelowThreshold ==
  /\ probe.fn = "get_low_count_exams" =>
       /\ Range(probe.low) =
            { e \in Exams : CountOf(store, e) > 0 /\ CountOf(store, e) < probe.threshold }
       /\ \A i, j \in DOMAIN probe.low :
            /\ i # j => probe.low[i] # probe.low[j]
            /\ i < j => CountOf(store, probe.low[i]) <= CountOf(store, probe.low[j])
  /\ phase = "Draining" =>
       /\ \A e \in Submitted : CountOf(store, e) < GAP_THRESHOLD
       /\ Range(queue) = Submitted
       /\ \A i, j \in DOMAIN queue :
            i < j => CountOf(store, queue[i]) <= CountOf(store, queue[j])

\* the scanner returned two groups of different counts and left out a third
\* that has reached the threshold
C13_Witness ==
  /\ probe.fn = "get_low_count_exams"
  /\ Len(probe.low) = 2
  /\ CountOf(store, probe.low[1]) < CountOf(store, probe.low[2])
  /\ \E e \in Exams : CountOf(store, e) >= probe.threshold

\* the tasks whose bulk insert has returned
AfterInsert == { e \in Exams : At(e, "insLoad") \/ At(e, "insStore") }

\* C14: the value bulk_insert_questions returns, which is then added to
\* total_inserted, is the number of documents of the batch the store wrote.
C14_ReturnsWritten ==
  \A e \in AfterInsert : task[e].ret = task[e].written

\* C15: after a bulk insert in which the store rejected some documents of the
\* batch, every other document of the batch is in the collection, wherever the
\* rejected documents stand in the batch.
C15_PartialSuccess ==
  \A e \in AfterInsert :
    task[e].insertError = "BulkWriteError" =>
      \A k \in DOMAIN task[e].processed :
        k \notin task[e].rejected => BagIn(task[e].processed[k], store)

\* the first document of a batch of two was rejected and the second written
C15_Witness ==
  \E e \in AfterInsert :
    /\ Len(task[e].processed) = 2
    /\ task[e].insertError = "BulkWriteError"
    /\ task[e].rejected = {1}
    /\ BagIn(task[e].processed[2], store)

\* C16: a candidate classified a duplicate under a threshold is classified a
\* duplicate under every lower threshold of 0..100, for the same store.
C16_ThresholdMonotone ==
  probe.fn = "_is_duplicate" =>
    (probe.r2 # "unique" => probe.r1 # "unique")

\* a candidate that is a fuzzy duplicate under the lower threshold and unique
\* under the higher one
C16_Witness ==
  /\ probe.fn = "_is_duplicate"
  /\ probe.r1 = "fuzzy"
  /\ probe.r2 = "unique"
  /\ probe.t1 > 0
  /\ probe.t2 < 100

\* C17: under the threshold 0 every candidate is classified a duplicate, and
\* under the threshold 100 no candidate is classified a fuzzy duplicate.
C17_DegenerateThresholds ==
  probe.fn = "_is_duplicate" =>
    /\ probe.t1 = 0 => probe.r1 # "unique"
    /\ probe.t2 = 100 => probe.r2 # "fuzzy"

ClassifiedAs(e, cls) ==
  { k \in DOMAIN task[e].batch :
      is_duplicate(store, task[e].batch[k], task[e].existing) = cls }

\* C19: a worker running alone on a batch of n candidates, ex of them exact and
\* fz fuzzy duplicates, hydrates and submits n - ex - fz candidates; _stats has
\* grown by n generated, ex exact, fz fuzzy and ex + fz duplicates, and the
\* amount added to total_inserted is at most n - ex - fz.
C19_WorkerAccounting ==
  \A e \in Running :
    LET n == Len(task[e].batch)
        ex == Cardinality(ClassifiedAs(e, "exact"))
        fz == Cardinality(ClassifiedAs(e, "fuzzy"))
        b == task[e].base
    IN /\ task[e].pc \in {"tdLoad", "tdStore", "insert"} =>
            /\ Len(task[e].processed) = n - ex - fz
            /\ stats["total_generated"] = b["total_generated"] + n
            /\ stats["exact_duplicates"] = b["exact_duplicates"] + ex
            /\ stats["fuzzy_duplicates"] = b["fuzzy_duplicates"] + fz
       /\ task[e].pc = "insert" =>
            stats["total_duplicates"] = b["total_duplicates"] + ex + fz
       /\ task[e].pc = "insStore" =>
            /\ task[e].tmp = b["total_inserted"]
            /\ task[e].ret <= Len(task[e].processed)

\* a batch of one exact duplicate and one unique candidate is about to be
\* inserted
C19_Witness ==
  \E e \in Running :
    /\ task[e].pc = "insert"
    /\ Len(task[e].batch) = 2
    /\ Cardinality(ClassifiedAs(e, "exact")) = 1
    /\ Len(task[e].processed) = 1

\* C20: a task that finds no seed question for its exam returns without an
\* exception; the provider is not called, nothing is inserted, and _stats and
\* _question_counter are left as they were.
C20_EmptySeedSample ==
  [][\A e \in Exams :
       (/\ task[e].st = "queued"
        /\ task'[e].st # "queued"
        /\ get_seed_questions(store, e) = {}
        /\ faultsLeft' = faultsLeft)
       => /\ task'[e] = Frame("done", NoExc)
          /\ UNCHANGED <<store, stats, counter, candLeft, expected>>]_vars

\* the task of an exam without documents has returned
C20_Witness ==
  \E e \in Exams :
    /\ task[e].st = "done"
    /\ get_seed_questions(store, e) = {}
    /\ phase = "Draining"

\* C21: a worker whose provider response has an item without a question text
\* (or is not a list) treats it as zero candidates: none of its steps changes
\* _stats or the collection.
C21_MalformedIsZeroCandidates ==
  [][\A e \in Running :
       (task[e].missing > 0 /\ task'[e] # task[e]) =>
         UNCHANGED <<stats, store>>]_vars

\* C22: a task that has called the provider has slept BATCH_DELAY_SECONDS when
\* it ends, whether it returned or raised.
C22_PauseAfterProviderCall ==
  \A e \in Terminal : task[e].calls > 0 => task[e].paused

\* C23: once the interrupt has been raised in the scheduler, no round is
\* started and no task that is still queued begins to execute.
C23_NoStartAfterInterrupt ==
  [][interrupted =>
       /\ phase' = "Scanning" => phase = "Scanning"
       /\ \A e \in Exams : task[e].st = "queued" => task'[e].st = "queued"]_vars

\* the keys of the claim that carry the seed's group, section and topic
ScopeKeys == {"examSlug", "section", "sectionName", "topic", "subtopic"}

\* C24: a hydrated item has the seed's examSlug, section, sectionName, topic and
\* subtopic whatever the provider's item held for them, status DEFAULT_STATUS
\* and __v DEFAULT_VERSION, and none of the keys _id, createdAt, updatedAt.
C24_HydratedFromSeed ==
  probe.fn = "_hydrate_question" =>
    /\ \A key \in ScopeKeys :
         /\ key \in DOMAIN probe.out
         /\ probe.out[key] = DictGet(probe.seed, key, None)
    /\ probe.out["status"] = DEFAULT_STATUS
    /\ probe.out["__v"] = DEFAULT_VERSION
    /\ DOMAIN probe.out \cap PersistenceKeys = {}

\* the provider's item echoed another topic, another group, a status, a
\* revision and an _id
C24_Witness ==
  /\ probe.fn = "_hydrate_question"
  /\ {"topic", "examSlug", "status", "__v", "_id"} \subseteq DOMAIN probe.question
  /\ probe.question["topic"] # probe.seed["topic"]
  /\ probe.out["topic"] = probe.seed["topic"]

\* C25: _print_stats is called once at the end of every round, whatever the
\* outcome (idle, completed, rate-limit backoff, other failure), and when the
\* agent is shut down.
C25_StatsReportedEveryRound ==
  /\ phase = "Cooling" => printed = 1
  /\ phase = "Stopped" => printed >= 1

\* C26: the text generate returns parses as an object whose key 'questions'
\* holds the generated questions, which is what the authors' test accepts, and
\* the worker's parser turns that text into the list of those questions.
C26_GenerateReturnsObject ==
  probe.fn = "generate" =>
    LET questions == IF "questions" \in DOMAIN probe.content.members
                     THEN probe.content.members["questions"].items ELSE <<>>
    IN /\ loads(probe.returned) = JObject([key \in {"questions"} |-> JArray(questions)])
       /\ probe.accepted
       /\ probe.parsed = JArray(questions)

\* C27: a candidate whose stripped text equals the stripped text of a stored
\* document of any exam or topic is classified an exact duplicate; so is the
\* text of a document inserted earlier when the provider returns it again.
C27_ExactOnTrimmedText ==
  probe.fn = "_is_duplicate again" =>
    ((\E d \in BagToSet(store) : Strip(d.question) = Strip(probe.text))
       => probe.result = "exact")

\* C28: the exact lookup comes first: a candidate that find_exact_match finds is
\* classified exact and counted in exact_duplicates even if a reference text
\* scores above the threshold; another candidate is fuzzy, and counted in
\* fuzzy_duplicates, iff some reference text scores strictly above
\* FUZZY_MATCH_THRESHOLD, and unique, and hydrated, otherwise.
C28_ExactBeforeFuzzy ==
  /\ [](\A e \in Running :
          task[e].pc \in {"dupStore", "ctrStore"} =>
            LET text == task[e].batch[task[e].i]
                exact == find_exact_match(store, text)
                above == \E x \in task[e].existing :
                           ScoreExceeds(text, x, FUZZY_MATCH_THRESHOLD)
            IN /\ task[e].cls = "exact" <=> exact
               /\ task[e].cls = "fuzzy" <=> (~exact /\ above)
               /\ task[e].cls = "unique" <=> (~exact /\ ~above)
               /\ task[e].pc = "ctrStore" <=> task[e].cls = "unique")
  /\ [][\A e \in Running :
          (task[e].pc = "dupStore" /\ task'[e] # task[e]) =>
            LET key == IF find_exact_match(store, task[e].batch[task[e].i])
                       THEN "exact_duplicates" ELSE "fuzzy_duplicates"
            IN stats' = [stats EXCEPT ![key] = @ + 1]]_vars

\* a candidate that has an exact match and a reference text above the
\* threshold has been counted in exact_duplicates
C28_Witness ==
  \E e \in Running :
    /\ task[e].i = 2
    /\ task[e].pc \in {"classify", "tdLoad"}
    /\ find_exact_match(store, task[e].batch[1])
    /\ \E x \in task[e].existing :
         ScoreExceeds(task[e].batch[1], x, FUZZY_MATCH_THRESHOLD)
    /\ stats["exact_duplicates"] = 1
    /\ stats["fuzzy_duplicates"] = 0

C30_OneCallPerTask ==
  /\ [](\A e \in Exams : task[e].calls <= 1)
  /\ [][(phase = "Scanning" /\ phase' = "Draining") =>
          /\ queue' \in get_low_count_exams(store, GAP_THRESHOLD)
          /\ Cardinality(Range(queue')) = Len(queue')
          /\ \A e \in Exams : task'[e].st # "idle" <=> e \in Range(queue')]_vars
  /\ [][\A e \in Exams :
          /\ (task[e].st # "queued" /\ task'[e].st = "queued") =>
               (phase = "Scanning" /\ task[e].st = "idle")
          /\ task[e].st \in {"done", "failed"} =>
               \/ task'[e] = task[e]
               \/ phase = "Cooling" /\ phase' = "Scanning" /\ task'[e].st = "idle"]_vars

\* a round has ended in which the provider call of a task failed: the task
\* made that one call, and its exam is still below the threshold
C30_Witness ==
  /\ phase = "Cooling"
  /\ \E e \in Failed :
       /\ task[e].exc.kind = "provider"
       /\ task[e].calls = 1
       /\ CountOf(store, e) < GAP_THRESHOLD

\* C31: when a task of the round has failed with the rate-limit error, the
\* round reaches Cooling only after every other submitted task has run to its
\* end, none cancelled: each has called the provider, unless its own read of
\* the seed sample raised or found nothing.
C31_NoCancellationOnRateLimit ==
  (phase = "Cooling" /\ RateLimitedTasks # {}) =>
    /\ queue = <<>>
    /\ \A f \in Submitted :
         /\ f \in Terminal
         /\ \/ task[f].calls = 1
            \/ task[f].st = "failed" /\ task[f].exc.kind = "store"
            \/ get_seed_questions(store, f) = {}

\* one task failed with the rate-limit error and another task of the round
\* called the provider, inserted and paused
C31_Witness ==
  /\ phase = "Cooling"
  /\ RateLimitedTasks # {}
  /\ Inserted # {}
  /\ \E f \in Submitted \ RateLimitedTasks :
       task[f].st = "done" /\ task[f].calls = 1 /\ task[f].paused

\* C32: whenever no task is queued or running between rounds, _stats satisfies
\* total_duplicates = exact_duplicates + fuzzy_duplicates and
\* total_inserted + total_duplicates <= total_generated.
C32_StatsConsistent ==
  (phase \in {"Cooling", "Scanning"} /\ PoolDrained) =>
    /\ stats["total_duplicates"] = stats["exact_duplicates"] + stats["fuzzy_duplicates"]
    /\ stats["total_inserted"] + stats["total_duplicates"] <= stats["total_generated"]

\* C33: no step of the scheduler or of a worker removes or changes a stored
\* document; the collection changes only by the bulk insert of a worker, whose
\* new documents are hydrated documents of its batch and carry its exam; so no
\* exam's count decreases and a worker leaves the other exams' counts as they
\* were.
C33_OnlyAddsToOwnGroup ==
  [][/\ store \sqsubseteq store'
     /\ store' # store =>
          \E e \in Running :
            /\ task[e].pc = "insert"
            /\ task'[e] # task[e]
            /\ \A d \in BagToSet(store' (-) store) :
                 /\ d.examSlug = e
                 /\ d \in Range(task[e].processed)
            /\ \A f \in Exams \ {e} : CountOf(store', f) = CountOf(store, f)
     /\ \A f \in Exams : CountOf(store', f) >= CountOf(store, f)]_vars

\* a round has ended in which the worker of exam 1 inserted and the count of
\* exam 2, which shares its topic, is as it was
C33_Witness ==
  /\ phase = "Cooling"
  /\ \E d \in Inserted : d.examSlug = 1
  /\ CountOf(store, 1) = 2
  /\ CountOf(store, 2) = 1
  /\ task[2].st = "done"

\* C34: the construction of ContentAgent from Config and generator.py raises
\* nothing: the process never ends before run() makes its first scan.
C34_StartupReachesLoop == phase # "Crashed"

====
